---- MODULE Spec2Model ----
\* A model of the multilingual customer-support pipeline: the orchestrator
\* (CustomerSupportService), the language detector, the intent classifier and
\* the response generator with its translation-model cache
\* (src/src/ml/*.py), and the HTTP handler of src/src/backend/app.py.
\*
\* Conventions
\*   - A Python dict is a sequence of records [k |-> key, v |-> value] in
\*     insertion order (the order matters: first key, tie-breaks).
\*   - An Optional[str] is a record [none |-> BOOLEAN, s |-> STRING].
\*   - Confidences and similarities are integers in hundredths (1.0 = 100).
\*   - Requests run on threads against one service instance; a thread can be
\*     preempted between the cache membership test of _get_translation_model
\*     and the load that follows it. Threads are interchangeable, so the
\*     requests in progress are kept as a bag.
EXTENDS Integers, Sequences, FiniteSets, Bags, TLC

\* ------------------------------------------------------------------ bounds

\* The number of requests started in one behaviour.
MaxCalls == 2

\* The threads that call into the service.
Callers == {"t1", "t2"}

\* ------------------------------------------------------- Python values

NoneStr == [none |-> TRUE, s |-> ""]

Some(str) == [none |-> FALSE, s |-> str]

\* Python truthiness of an Optional[str]: None and "" are falsy.
Truthy(o) == ~o.none /\ o.s # ""

\* key in d
HasKey(d, key) == \E i \in 1..Len(d) : d[i].k = key

\* d[key], for a key that is present
DictGet(d, key) == d[CHOOSE i \in 1..Len(d) : d[i].k = key].v

\* list(d.keys())
DictKeys(d) == [i \in 1..Len(d) |-> d[i].k]

\* ------------------------------------------------ configuration tables

\* _load_responses, responses.json missing: the defaults written and returned.
default_responses ==
    << [k |-> "greeting",
        v |-> << [k |-> "en", v |-> "Hello! How can I assist you today?"],
                [k |-> "es", v |-> "¡Hola! ¿Cómo puedo ayudarte hoy?"],
                [k |-> "fr", v |-> "Bonjour! Comment puis-je vous aider aujourd'hui?"],
                [k |-> "de", v |-> "Hallo! Wie kann ich Ihnen heute helfen?"],
                [k |-> "it", v |-> "Ciao! Come posso aiutarti oggi?"],
                [k |-> "pt", v |-> "Olá! Como posso ajudá-lo hoje?"] >>],
       [k |-> "farewell",
        v |-> << [k |-> "en", v |-> "Goodbye! Have a great day!"],
                [k |-> "es", v |-> "¡Adiós! ¡Que tengas un excelente día!"],
                [k |-> "fr", v |-> "Au revoir! Passez une excellente journée!"],
                [k |-> "de", v |-> "Auf Wiedersehen! Haben Sie einen schönen Tag!"],
                [k |-> "it", v |-> "Arrivederci! Buona giornata!"],
                [k |-> "pt", v |-> "Adeus! Tenha um ótimo dia!"] >>],
       [k |-> "help",
        v |-> << [k |-> "en", v |-> "I'm here to help! Please let me know what you need assistance with."],
                [k |-> "es", v |-> "¡Estoy aquí para ayudar! Por favor, dime en qué necesitas ayuda."],
                [k |-> "fr", v |-> "Je suis là pour vous aider! Dites-moi ce dont vous avez besoin."],
                [k |-> "de", v |-> "Ich bin hier um zu helfen! Bitte lassen Sie mich wissen, wobei Sie Hilfe benötigen."],
                [k |-> "it", v |-> "Sono qui per aiutare! Per favore, fammi sapere con cosa hai bisogno di assistenza."],
                [k |-> "pt", v |-> "Estou aqui para ajudar! Por favor, me diga com o que você precisa de ajuda."] >>],
       [k |-> "product_info",
        v |-> << [k |-> "en", v |-> "I'd be happy to tell you about our products. What specific information are you looking for?"],
                [k |-> "es", v |-> "Me complace informarte sobre nuestros productos. ¿Qué información específica buscas?"],
                [k |-> "fr", v |-> "Je serai ravi de vous parler de nos produits. Quelle information spécifique recherchez-vous?"],
                [k |-> "de", v |-> "Ich informiere Sie gerne über unsere Produkte. Welche spezifischen Informationen suchen Sie?"],
                [k |-> "it", v |-> "Sarò felice di parlarti dei nostri prodotti. Quali informazioni specifiche stai cercando?"],
                [k |-> "pt", v |-> "Ficarei feliz em falar sobre nossos produtos. Que informação específica você está procurando?"] >>],
       [k |-> "unknown",
        v |-> << [k |-> "en", v |-> "I'm not sure I understand. Could you please rephrase that?"],
                [k |-> "es", v |-> "No estoy seguro de entender. ¿Podrías reformular eso?"],
                [k |-> "fr", v |-> "Je ne suis pas sûr de comprendre. Pourriez-vous reformuler?"],
                [k |-> "de", v |-> "Ich bin mir nicht sicher, ob ich das verstehe. Könnten Sie das bitte umformulieren?"],
                [k |-> "it", v |-> "Non sono sicuro di capire. Potresti riformulare?"],
                [k |-> "pt", v |-> "Não tenho certeza se entendi. Você poderia reformular isso?"] >>] >>

\* _load_responses, responses.json unreadable: the reduced defaults returned.
error_responses ==
    << [k |-> "greeting",
        v |-> << [k |-> "en", v |-> "Hello! How can I assist you today?"] >>],
       [k |-> "farewell",
        v |-> << [k |-> "en", v |-> "Goodbye! Have a great day!"] >>],
       [k |-> "help",
        v |-> << [k |-> "en", v |-> "I'm here to help! Please let me know what you need assistance with."] >>],
       [k |-> "unknown",
        v |-> << [k |-> "en", v |-> "I'm not sure I understand. Could you please rephrase that?"] >>] >>

\* _load_intents, intents.json missing: the defaults written and returned.
default_intents ==
    << [k |-> "greeting",
        v |-> << "hello", "hi", "hey", "good morning", "good evening", "hola", "bonjour", "ciao", "hallo", "olá" >>],
       [k |-> "farewell",
        v |-> << "goodbye", "bye", "see you", "have a nice day", "take care", "adiós", "au revoir", "arrivederci", "auf wiedersehen", "adeus" >>],
       [k |-> "help",
        v |-> << "help", "I need assistance", "can you help me", "support needed", "ayuda", "aide", "aiuto", "hilfe", "ajuda" >>],
       [k |-> "product_info",
        v |-> << "product information", "tell me about your products", "what do you sell", "información del producto", "informations sur le produit", "informazioni sul prodotto", "Produktinformation", "informações do produto" >>] >>

\* _load_intents, intents.json unreadable: the reduced defaults returned.
error_intents ==
    << [k |-> "greeting",
        v |-> << "hello", "hi" >>],
       [k |-> "farewell",
        v |-> << "goodbye", "bye" >>],
       [k |-> "help",
        v |-> << "help", "assistance" >>],
       [k |-> "unknown",
        v |-> << "unknown" >>] >>

\* _load_responses, responses.json readable: whatever json.load returns, with
\* no validation. Two such files: one without the "unknown" intent; one with
\* an intent that has no "en" entry and an "unknown" intent with an empty
\* table.
file_responses_no_unknown ==
    << [k |-> "greeting",
        v |-> << [k |-> "en", v |-> "Hi!"] >>] >>

file_responses_partial ==
    << [k |-> "greeting",
        v |-> << [k |-> "es", v |-> "Hola"],
                 [k |-> "fr", v |-> "Salut"] >>],
       [k |-> "unknown",
        v |-> << >>] >>

FileResponses == {file_responses_no_unknown, file_responses_partial}

\* The three ways _load_responses ends.
LoadResponses == {default_responses, error_responses} \cup FileResponses

\* The ways _load_intents ends (a readable file holding the defaults it wrote
\* on an earlier run is the first of them).
LoadIntents == {default_intents, error_intents}

\* ---------------------------------------------------------------- inputs

\* Query texts: a greeting, a short text without any keyword, a Spanish
\* request for help.
Texts == {"Hello", "xyz", "Hola, necesito ayuda"}

\* Query texts posted to the handler of backend/app.py on its own: those, a
\* longer text without any keyword, a text on which two intents score the
\* same, one whose score passes the cap of the confidence, one with keywords of
\* several intents.
HttpTexts ==
    Texts \cup {"one two three four", "hello, bye", "hello hi hey greetings",
                "I need help with pricing"}

\* preferred_language: absent, empty, a language without templates, English.
PreferredLanguages == {NoneStr, Some(""), Some("ja"), Some("en")}

\* The requests made of a running service, as (text, preferred_language):
\* one text with every preferred language, every text with none.
Queries == ({"Hello"} \X PreferredLanguages) \cup (Texts \X {NoneStr})

\* Intent names passed to get_response.
IntentNames == {"greeting", "unknown", "nonexistent-intent"}

\* Language codes passed to get_response.
LanguageCodes == {"es", "ja"}

\* What the detection model can answer (a few of its labels and scores).
DetectorLabels == {"es", "ja"}

DetectorScores == {99}

\* Probabilities at the ends of what the arg-max of a softmax can be, for
\* detect_language called on its own.
DetectorScoresAlone == {5, 100}

\* Cosine similarities the embedding model can yield, in hundredths: a
\* negative one, one at the default threshold, and that of a text equal to an
\* exemplar.
Similarities == {-20, 50, 100}

\* Thresholds passed to classify_intent: the default and a stricter one.
Thresholds == {50, 70}

\* Texts passed to classify_intent on its own. What the encoder makes of a
\* text is drawn from Similarities, whatever the text.
ClassifiedTexts == {"Hello"}

\* classify_intent's default threshold (0.5).
DefaultThreshold == 50

\* -------------------------------------------------------------- state

VARIABLES
    responses,           \* ResponseGenerator.responses
    translation_models,  \* ResponseGenerator.translation_models: model_key -> (tokenizer, model)
    intents,             \* IntentClassifier.intents
    intent_embeddings,   \* IntentClassifier.intent_embeddings
    cls_initialized,     \* IntentClassifier.initialized
    det_initialized,     \* LanguageDetector.initialized
    in_flight,           \* the bag of requests in progress, one per busy thread
    last,                \* the request that ended most recently, with its outcome
    loads,               \* per model_key, the from_pretrained calls made and those that succeeded
    calls,               \* requests started so far
    launcher             \* main() of run.py: where it stands, and its loop variables

vars == << responses, translation_models, intents, intent_embeddings,
           cls_initialized, det_initialized, in_flight, last, loads, calls,
           launcher >>

\* ------------------------------------------------ IntentClassifier

\* _compute_intent_embeddings: one embedding per exemplar, for every intent;
\* nothing when the classifier is not initialized or has no model.
ComputeIntentEmbeddings(initialized, model_loaded, encode_ok) ==
    IF ~initialized \/ ~model_loaded THEN << >>
    ELSE IF ~encode_ok THEN << >>
    ELSE [i \in 1..Len(intents) |->
             [k |-> intents[i].k,
              v |-> [j \in 1..Len(intents[i].v) |-> << "embedding", intents[i].v[j] >>]]]

\* A faulty loop: a later intent with an equal maximum replaces the best.
RECURSIVE BestIntent_LastWins(_, _, _, _)
BestIntent_LastWins(sims, i, max_similarity, best_intent) ==
    IF i > Len(intent_embeddings) THEN
        [max_similarity |-> max_similarity, best_intent |-> best_intent]
    ELSE IF sims[i] >= max_similarity THEN
        BestIntent_LastWins(sims, i + 1, sims[i], intent_embeddings[i].k)
    ELSE
        BestIntent_LastWins(sims, i + 1, max_similarity, best_intent)

\* The loop of classify_intent over intent_embeddings, from position i on:
\* sims[i] is the maximum similarity of the text to the i-th intent's exemplars.
RECURSIVE BestIntent(_, _, _, _)
BestIntent(sims, i, max_similarity, best_intent) ==
    IF i > Len(intent_embeddings) THEN
        [max_similarity |-> max_similarity, best_intent |-> best_intent]
    ELSE IF sims[i] > max_similarity THEN
        BestIntent(sims, i + 1, sims[i], intent_embeddings[i].k)
    ELSE
        BestIntent(sims, i + 1, max_similarity, best_intent)

\* A faulty classify_intent: below the threshold it answers a fixed 0.0.
ClassifyIntent_Sentinel(text, threshold, env) ==
    IF ~cls_initialized \/ Len(intent_embeddings) = 0 THEN
        [intent |-> "unknown", confidence |-> 0]
    ELSE IF env.raises THEN
        [intent |-> "unknown", confidence |-> 0]
    ELSE
        LET best == BestIntent(env.sims, 1, -100, "unknown") IN
        IF best.max_similarity < threshold THEN
            [intent |-> "unknown", confidence |-> 0]
        ELSE
            [intent |-> best.best_intent, confidence |-> best.max_similarity]

\* A faulty classify_intent: it runs the similarity search without testing
\* self.initialized.
ClassifyIntent_Unguarded(text, threshold, env) ==
    IF env.raises THEN
        [intent |-> "unknown", confidence |-> 0]
    ELSE
        LET best == BestIntent(env.sims, 1, -100, "unknown") IN
        IF best.max_similarity < threshold THEN
            [intent |-> "unknown", confidence |-> best.max_similarity]
        ELSE
            [intent |-> best.best_intent, confidence |-> best.max_similarity]

\* classify_intent(text, threshold). env: whether the encoder raises, and the
\* per-intent maximum similarities it yields for the text.
ClassifyIntent(text, threshold, env) ==
    IF ~cls_initialized \/ Len(intent_embeddings) = 0 THEN
        [intent |-> "unknown", confidence |-> 0]
    ELSE IF env.raises THEN
        [intent |-> "unknown", confidence |-> 0]
    ELSE
        LET best == BestIntent(env.sims, 1, -100, "unknown") IN
        IF best.max_similarity < threshold THEN
            [intent |-> "unknown", confidence |-> best.max_similarity]
        ELSE
            [intent |-> best.best_intent, confidence |-> best.max_similarity]

\* What the encoder can do on one classify_intent call. It is consulted only
\* on the similarity path.
ClassifyEnvs ==
    IF ~cls_initialized \/ Len(intent_embeddings) = 0 THEN
        {[raises |-> FALSE, sims |-> << >>]}
    ELSE
        {[raises |-> TRUE, sims |-> << >>]} \cup
        {[raises |-> FALSE, sims |-> s] : s \in [1..Len(intent_embeddings) -> Similarities]}

\* ------------------------------------------------ LanguageDetector

\* A faulty detect_language: without a model it asks the model all the same.
DetectLanguage_Retry(text, env) ==
    IF env.raises THEN [language |-> "en", confidence |-> 50]
    ELSE [language |-> env.label, confidence |-> env.score]

\* A faulty detect_language: when the model raises it answers a sentinel.
DetectLanguage_Sentinel(text, env) ==
    IF ~det_initialized THEN [language |-> "en", confidence |-> 50]
    ELSE IF env.raises THEN [language |-> "unknown", confidence |-> -100]
    ELSE [language |-> env.label, confidence |-> env.score]

\* detect_language(text). env: whether the model raises, and its arg-max
\* label and probability.
DetectLanguage(text, env) ==
    IF ~det_initialized THEN [language |-> "en", confidence |-> 50]
    ELSE IF env.raises THEN [language |-> "en", confidence |-> 50]
    ELSE [language |-> env.label, confidence |-> env.score]

NoDetectEnv == [raises |-> FALSE, label |-> "en", score |-> 0]

\* What the detection model can do on one detect_language call.
DetectEnvs ==
    IF ~det_initialized THEN {NoDetectEnv}
    ELSE {[raises |-> TRUE, label |-> "en", score |-> 0]} \cup
         {[raises |-> FALSE, label |-> l, score |-> p] : l \in DetectorLabels, p \in DetectorScores}

\* What the detection model can do when detect_language is called on its own.
DetectEnvsAlone ==
    IF ~det_initialized THEN {NoDetectEnv}
    ELSE DetectEnvs \cup
         {[raises |-> FALSE, label |-> l, score |-> p] :
             l \in DetectorLabels, p \in DetectorScoresAlone}

\* ------------------------------------------------ ResponseGenerator

\* model_key = f"{source_lang}-{target_lang}"
ModelKey(source_lang, target_lang) == source_lang \o "-" \o target_lang

\* model_name = f"Helsinki-NLP/opus-mt-{source_lang}-{target_lang}"
ModelName(source_lang, target_lang) ==
    "Helsinki-NLP/opus-mt-" \o source_lang \o "-" \o target_lang

\* A faulty load: the tokenizer is stored without its model.
LoadedModel_TokenizerOnly(source_lang, target_lang) ==
    << "MarianTokenizer:" \o ModelName(source_lang, target_lang), "" >>

\* The (tokenizer, model) tuple a successful load stores. A loaded object is
\* written as a non-empty string naming it, None as "".
LoadedModel(source_lang, target_lang) ==
    << "MarianTokenizer:" \o ModelName(source_lang, target_lang),
       "MarianMTModel:" \o ModelName(source_lang, target_lang) >>

\* (None, None)
NoModel == << "", "" >>

\* self.translation_models.get(model_key, (None, None))
CacheGet(cache, model_key) ==
    IF model_key \in DOMAIN cache THEN cache[model_key] ELSE NoModel

\* tokenizer.decode(model.generate(...)): the text the loaded model produces,
\* a function of the model and of the input.
Decode(handle, text) == "<" \o handle[2] \o "> " \o text

\* translate(), from the handle on: None without a handle or when the call
\* raises, else the decoded text (which may be empty).
Generate(handle, text, tenv) ==
    IF handle[1] = "" \/ handle[2] = "" THEN NoneStr
    ELSE IF tenv = "raises" THEN NoneStr
    ELSE IF tenv = "empty" THEN Some("")
    ELSE Some(Decode(handle, text))

\* What one translation call can do.
TranslateEnvs == {"ok", "empty", "raises"}

\* What one from_pretrained attempt can do.
LoadEnvs == {"ok", "raises"}

Return(str) == [kind |-> "return", exc |-> "", response |-> str]

Raise(exc) == [kind |-> "raise", exc |-> exc, response |-> ""]

NoReturn == [kind |-> "none", exc |-> "", response |-> ""]

\* A faulty get_response: the English template is translated whenever it
\* exists, even when the language has its own entry.
GetResponsePlan_EnglishFirst(intent, language) ==
    LET name == IF HasKey(responses, intent) THEN intent ELSE "unknown" IN
    IF ~HasKey(responses, name) THEN
        [kind |-> "raise", exc |-> "KeyError", text |-> ""]
    ELSE
        LET response_templates == DictGet(responses, name) IN
        IF HasKey(response_templates, "en") /\ language # "en" THEN
            [kind |-> "translate", exc |-> "", text |-> DictGet(response_templates, "en")]
        ELSE IF HasKey(response_templates, language) THEN
            [kind |-> "return", exc |-> "", text |-> DictGet(response_templates, language)]
        ELSE IF Len(response_templates) = 0 THEN
            [kind |-> "raise", exc |-> "StopIteration", text |-> ""]
        ELSE
            [kind |-> "return", exc |-> "", text |-> response_templates[1].v]

\* A faulty get_response: an intent missing from the table is looked up
\* as it is, with no substitution of "unknown".
GetResponsePlan_NoSubstitution(intent, language) ==
    IF ~HasKey(responses, intent) THEN
        [kind |-> "raise", exc |-> "KeyError", text |-> ""]
    ELSE
        LET response_templates == DictGet(responses, intent) IN
        IF HasKey(response_templates, language) THEN
            [kind |-> "return", exc |-> "", text |-> DictGet(response_templates, language)]
        ELSE IF HasKey(response_templates, "en") THEN
            [kind |-> "translate", exc |-> "", text |-> DictGet(response_templates, "en")]
        ELSE IF Len(response_templates) = 0 THEN
            [kind |-> "raise", exc |-> "StopIteration", text |-> ""]
        ELSE
            [kind |-> "return", exc |-> "", text |-> response_templates[1].v]

\* get_response up to the call of translate: the literal it returns, the
\* exception it raises, or the English text it hands to translate.
GetResponsePlan(intent, language) ==
    LET name == IF HasKey(responses, intent) THEN intent ELSE "unknown" IN
    IF ~HasKey(responses, name) THEN
        [kind |-> "raise", exc |-> "KeyError", text |-> ""]
    ELSE
        LET response_templates == DictGet(responses, name) IN
        IF HasKey(response_templates, language) THEN
            [kind |-> "return", exc |-> "", text |-> DictGet(response_templates, language)]
        ELSE IF HasKey(response_templates, "en") THEN
            [kind |-> "translate", exc |-> "", text |-> DictGet(response_templates, "en")]
        ELSE IF Len(response_templates) = 0 THEN
            [kind |-> "raise", exc |-> "StopIteration", text |-> ""]
        ELSE
            [kind |-> "return", exc |-> "", text |-> response_templates[1].v]

\* A faulty get_response: whatever translate returned is handed back,
\* with no fallback to the English template.
FinishGetResponse_NoFallback(translated, en_text) ==
    Return(translated.s)

\* The end of get_response after translate returned: the translation when it
\* is truthy, else the English template.
FinishGetResponse(translated, en_text) ==
    Return(IF Truthy(translated) THEN translated.s ELSE en_text)

\* A thread with no request in progress and none made yet.
IdleCaller ==
    [pc |-> "idle", op |-> "none",
     query |-> "", preferred_language |-> NoneStr,
     intent |-> "", language |-> "",
     language_confidence |-> 0, intent_confidence |-> 0,
     detector_called |-> FALSE, classified_text |-> "",
     threshold |-> 0, sims |-> << >>, raised |-> FALSE,
     en_text |-> "", source_lang |-> "", target_lang |-> "",
     cache_at_call |-> {},
     loads_made |-> 0, stores_made |-> 0, translate_calls |-> 0,
     translation |-> "none",
     listing |-> << >>,
     ret |-> NoReturn]

\* How a translation attempt ended, from what translate returned.
TranslationOutcome(handle, tenv) ==
    IF handle[1] = "" \/ handle[2] = "" THEN "load_failed"
    ELSE IF tenv = "raises" THEN "call_failed"
    ELSE IF tenv = "empty" THEN "empty"
    ELSE "ok"

\* translate() from the handle on, then the end of get_response.
TranslateAndFinish(rec, handle, tenv) ==
    [rec EXCEPT
        !.pc = "idle",
        !.translate_calls = IF handle[1] = "" \/ handle[2] = "" THEN @ ELSE @ + 1,
        !.translation = TranslationOutcome(handle, tenv),
        !.ret = FinishGetResponse(Generate(handle, rec.en_text, tenv), rec.en_text)]

\* A faulty _get_translation_model: it loads the model whether or not the
\* cache holds its model_key.
RunGetResponse_AlwaysLoad(rec, tenv) ==
    LET plan == GetResponsePlan(rec.intent, rec.language)
        entered == [rec EXCEPT !.en_text = plan.text,
                               !.source_lang = "en",
                               !.target_lang = rec.language]
    IN
    IF plan.kind = "return" THEN [rec EXCEPT !.ret = Return(plan.text)]
    ELSE IF plan.kind = "raise" THEN [rec EXCEPT !.ret = Raise(plan.exc)]
    ELSE IF rec.language = "en" THEN
        [entered EXCEPT !.translation = "same",
                        !.ret = FinishGetResponse(Some(plan.text), plan.text)]
    ELSE [entered EXCEPT !.pc = "loading"]

\* get_response(rec.intent, rec.language) run by a thread until it returns,
\* raises, or has found its model_key missing from the cache and is about to
\* load the model.
RunGetResponse(rec, tenv) ==
    LET plan == GetResponsePlan(rec.intent, rec.language)
        source_lang == "en"
        target_lang == rec.language
        model_key == ModelKey(source_lang, target_lang)
        entered == [rec EXCEPT !.en_text = plan.text,
                               !.source_lang = source_lang,
                               !.target_lang = target_lang]
    IN
    IF plan.kind = "return" THEN [rec EXCEPT !.ret = Return(plan.text)]
    ELSE IF plan.kind = "raise" THEN [rec EXCEPT !.ret = Raise(plan.exc)]
    ELSE IF source_lang = target_lang THEN
        [entered EXCEPT !.translation = "same",
                        !.ret = FinishGetResponse(Some(plan.text), plan.text)]
    ELSE IF model_key \notin DOMAIN translation_models THEN
        [entered EXCEPT !.pc = "loading"]
    ELSE
        TranslateAndFinish(entered, CacheGet(translation_models, model_key), tenv)

\* What get_response(intent, language) returns or raises when its translation
\* attempt, if it makes one, ends as `translation`.
GetResponseOutcome(intent, language, translation) ==
    LET plan == GetResponsePlan(intent, language) IN
    IF plan.kind = "return" THEN Return(plan.text)
    ELSE IF plan.kind = "raise" THEN Raise(plan.exc)
    ELSE FinishGetResponse(
             IF translation = "ok" THEN Some(Decode(LoadedModel("en", language), plan.text))
             ELSE IF translation \in {"empty", "same"} THEN Some(IF translation = "same" THEN plan.text ELSE "")
             ELSE NoneStr,
             plan.text)

\* The record of a request that starts.
NewCall(op) ==
    [IdleCaller EXCEPT !.op = op, !.cache_at_call = DOMAIN translation_models]

\* A thread is free to take a request.
ThreadFree == BagCardinality(in_flight) < Cardinality(Callers)

\* A request that starts and is left as rec by its first step: ended, or in
\* progress.
Begin(rec) ==
    IF rec.pc = "idle"
    THEN /\ in_flight' = in_flight
         /\ last' = rec
    ELSE /\ in_flight' = in_flight (+) SetToBag({rec})
         /\ last' = last

\* The request in progress `was` ends as rec.
End(was, rec) ==
    /\ in_flight' = in_flight (-) SetToBag({was})
    /\ last' = rec

\* Whether get_response(intent, language) reaches the translation call within
\* its first step (its model_key is cached).
CacheHit(intent, language) ==
    /\ GetResponsePlan(intent, language).kind = "translate"
    /\ language # "en"
    /\ ModelKey("en", language) \in DOMAIN translation_models

\* ------------------------------------------------------------ actions

\* ResponseGenerator.get_response(intent, language), called on a free thread.
GetResponse(intent, language, tenv) ==
    /\ ThreadFree
    /\ calls < MaxCalls
    /\ Begin(RunGetResponse(
                 [NewCall("get_response") EXCEPT !.intent = intent,
                                                 !.language = language],
                 tenv))
    /\ calls' = calls + 1
    /\ UNCHANGED << responses, translation_models, intents, intent_embeddings,
                    cls_initialized, det_initialized, loads, launcher >>

\* process_query asking the detector whatever the caller supplies.
ResolveLanguage_AlwaysDetect(query, preferred_language, denv) ==
    [language |-> DetectLanguage(query, denv).language,
     confidence |-> DetectLanguage(query, denv).confidence,
     detector_called |-> TRUE]

\* The first step of process_query: the caller's language when it is truthy
\* (with confidence 1.0), else the detector's answer.
ResolveLanguage(query, preferred_language, denv) ==
    IF Truthy(preferred_language)
    THEN [language |-> preferred_language.s, confidence |-> 100, detector_called |-> FALSE]
    ELSE [language |-> DetectLanguage(query, denv).language,
          confidence |-> DetectLanguage(query, denv).confidence,
          detector_called |-> TRUE]

\* A faulty process_query: the classifier is given the query as translated
\* from the resolved language.
TextForIntent_Translated(query, language) == "<" \o language \o "-en> " \o query

\* The text process_query hands to classify_intent: the query as received.
TextForIntent(query, language) == query

\* CustomerSupportService.process_query(query, preferred_language), called on
\* a free thread: language, intent, then get_response.
ProcessQuery(query, preferred_language, denv, cenv, tenv) ==
    /\ ThreadFree
    /\ calls < MaxCalls
    /\ LET detected == ResolveLanguage(query, preferred_language, denv)
           text_for_intent == TextForIntent(query, detected.language)
           classified == ClassifyIntent(text_for_intent, DefaultThreshold, cenv)
       IN Begin(RunGetResponse(
                    [NewCall("process_query") EXCEPT
                        !.query = query,
                        !.preferred_language = preferred_language,
                        !.language = detected.language,
                        !.language_confidence = detected.confidence,
                        !.detector_called = detected.detector_called,
                        !.classified_text = text_for_intent,
                        !.intent = classified.intent,
                        !.intent_confidence = classified.confidence],
                    tenv))
    /\ calls' = calls + 1
    /\ UNCHANGED << responses, translation_models, intents, intent_embeddings,
                    cls_initialized, det_initialized, loads, launcher >>

\* The load of _get_translation_model by the thread of request rec, which
\* found its model_key missing: from_pretrained, the store on success, then
\* the rest of translate and of get_response.
LoadModel(rec, lenv, tenv) ==
    LET model_key == ModelKey(rec.source_lang, rec.target_lang)
        before == IF model_key \in DOMAIN loads THEN loads[model_key]
                  ELSE [attempts |-> 0, successes |-> 0]
        loading == [rec EXCEPT !.loads_made = @ + 1]
    IN
    /\ BagIn(rec, in_flight)
    /\ rec.pc = "loading"
    /\ IF lenv = "ok" THEN
           LET cache == (model_key :> LoadedModel(rec.source_lang, rec.target_lang))
                            @@ translation_models
           IN /\ translation_models' = cache
              /\ loads' = (model_key :> [attempts |-> before.attempts + 1,
                                         successes |-> before.successes + 1]) @@ loads
              /\ End(rec, TranslateAndFinish([loading EXCEPT !.stores_made = @ + 1],
                                             CacheGet(cache, model_key), tenv))
       ELSE
           /\ translation_models' = translation_models
           /\ loads' = (model_key :> [attempts |-> before.attempts + 1,
                                      successes |-> before.successes]) @@ loads
           /\ End(rec, TranslateAndFinish(loading, NoModel, tenv))
    /\ UNCHANGED << responses, intents, intent_embeddings, cls_initialized,
                    det_initialized, calls, launcher >>

\* ------------------------------------------------ backend/app.py

\* The letters str.lower() changes, among the characters of the model's texts.
upper_letters == "ABCDEFGHIJKLMNOPQRSTUVWXYZÁÉÍÓÚÑÜÇ"

lower_letters == "abcdefghijklmnopqrstuvwxyzáéíóúñüç"

\* str.lower() of one character.
LowerChar(c) ==
    IF \E i \in 1..Len(upper_letters) : SubSeq(upper_letters, i, i) = c
    THEN LET i == CHOOSE i \in 1..Len(upper_letters) : SubSeq(upper_letters, i, i) = c
         IN SubSeq(lower_letters, i, i)
    ELSE c

\* text.lower()
RECURSIVE Lower(_)
Lower(text) ==
    IF text = "" THEN ""
    ELSE LowerChar(SubSeq(text, 1, 1)) \o Lower(SubSeq(text, 2, Len(text)))

\* sub in text
Contains(text, sub) ==
    \E i \in 1..(Len(text) - Len(sub) + 1) : SubSeq(text, i, i + Len(sub) - 1) = sub

\* word.startswith(prefix)
StartsWith(word, prefix) ==
    Len(prefix) <= Len(word) /\ SubSeq(word, 1, Len(prefix)) = prefix

\* text.split(), from position i on, word being the token read so far: the
\* maximal runs of characters other than whitespace.
RECURSIVE SplitFrom(_, _, _)
SplitFrom(text, i, word) ==
    IF i > Len(text) THEN (IF word = "" THEN << >> ELSE << word >>)
    ELSE IF SubSeq(text, i, i) = " " THEN
        (IF word = "" THEN << >> ELSE << word >>) \o SplitFrom(text, i + 1, "")
    ELSE SplitFrom(text, i + 1, word \o SubSeq(text, i, i))

Split(text) == SplitFrom(text, 1, "")

\* sum(1 for x in xs if x in text)
CountIn(xs, text) == Cardinality({i \in 1..Len(xs) : Contains(text, xs[i])})

\* sum(1 for keyword in keywords if any(word.startswith(keyword) for word in words))
CountPrefixOf(keywords, words) ==
    Cardinality({i \in 1..Len(keywords) :
                    \E j \in 1..Len(words) : StartsWith(words[j], keywords[i])})

\* app.py l.52
spanish_words ==
    << "hola", "gracias", "por favor", "adiós", "sí", "no", "ayuda", "necesito", "información" >>

\* app.py l.53
spanish_patterns ==
    << "ñ", "¿", "¡", "qué", "cómo", "dónde", "cuándo" >>

\* app.py l.56
french_words ==
    << "bonjour", "merci", "s'il vous plaît", "au revoir", "oui", "non", "aide", "besoin" >>

\* app.py l.57
french_patterns ==
    << "é", "è", "ê", "à", "ç", "ù", "ô" >>

\* app.py l.60
german_words ==
    << "hallo", "danke", "bitte", "auf wiedersehen", "ja", "nein", "hilfe", "brauche" >>

\* app.py l.61
german_patterns ==
    << "ä", "ö", "ü", "ß" >>

\* app.py l.64
italian_words ==
    << "ciao", "grazie", "per favore", "arrivederci", "sì", "no", "aiuto", "ho bisogno" >>

\* app.py l.65
italian_patterns ==
    << "è", "é", "à", "ò", "ù" >>

\* app.py l.68
portuguese_words ==
    << "olá", "obrigado", "por favor", "adeus", "sim", "não", "ajuda", "preciso" >>

\* app.py l.69
portuguese_patterns ==
    << "ã", "õ", "ç", "á", "é", "í", "ó", "ú" >>

\* app.py l.191-207: keyword patterns for each intent, in declaration order.
intent_patterns ==
    << [k |-> "greeting",
        v |-> << "hello", "hi", "hey", "greetings", "good morning", "good afternoon", "good evening", "hola", "bonjour", "ciao", "hallo", "howdy", "what's up", "sup" >>],
       [k |-> "farewell",
        v |-> << "goodbye", "bye", "see you", "farewell", "adios", "au revoir", "cya", "take care", "have a nice day", "until next time", "talk to you later", "ttyl" >>],
       [k |-> "help",
        v |-> << "help", "assist", "support", "guidance", "need help", "can you help", "how do i", "how to", "having trouble", "problem with", "issue with", "question about", "confused about" >>],
       [k |-> "product_info",
        v |-> << "product", "service", "offer", "sell", "feature", "plan", "subscription", "package", "demo", "information about", "tell me about", "what is", "how does", "how do you", "what are your" >>],
       [k |-> "pricing",
        v |-> << "price", "cost", "pricing", "fee", "subscription cost", "how much", "discount", "trial", "free trial", "payment", "pay", "affordable", "expensive", "cheap", "premium" >>],
       [k |-> "contact",
        v |-> << "contact", "email", "phone", "call", "reach", "talk to", "speak with", "chat with", "customer service", "representative", "agent", "human", "person", "manager" >>],
       [k |-> "technical_support",
        v |-> << "technical", "tech support", "bug", "error", "issue", "problem", "not working", "broken", "fix", "repair", "troubleshoot", "crash", "glitch", "malfunction" >>] >>

\* app.py l.96-161
MOCK_RESPONSES ==
    << [k |-> "greeting",
        v |-> << [k |-> "en", v |-> "Hello! How can I assist you today?"],
                [k |-> "es", v |-> "¡Hola! ¿Cómo puedo ayudarte hoy?"],
                [k |-> "fr", v |-> "Bonjour! Comment puis-je vous aider aujourd'hui?"],
                [k |-> "de", v |-> "Hallo! Wie kann ich Ihnen heute helfen?"],
                [k |-> "it", v |-> "Ciao! Come posso aiutarti oggi?"],
                [k |-> "pt", v |-> "Olá! Como posso ajudá-lo hoje?"] >>],
       [k |-> "farewell",
        v |-> << [k |-> "en", v |-> "Goodbye! Have a great day!"],
                [k |-> "es", v |-> "¡Adiós! ¡Que tengas un excelente día!"],
                [k |-> "fr", v |-> "Au revoir! Passez une excellente journée!"],
                [k |-> "de", v |-> "Auf Wiedersehen! Haben Sie einen schönen Tag!"],
                [k |-> "it", v |-> "Arrivederci! Buona giornata!"],
                [k |-> "pt", v |-> "Adeus! Tenha um ótimo dia!"] >>],
       [k |-> "help",
        v |-> << [k |-> "en", v |-> "I'm here to help! Please let me know what you need assistance with."],
                [k |-> "es", v |-> "¡Estoy aquí para ayudar! Por favor, dime en qué necesitas ayuda."],
                [k |-> "fr", v |-> "Je suis là pour vous aider! Dites-moi ce dont vous avez besoin."],
                [k |-> "de", v |-> "Ich bin hier um zu helfen! Bitte lassen Sie mich wissen, wobei Sie Hilfe benötigen."],
                [k |-> "it", v |-> "Sono qui per aiutare! Per favore, fammi sapere con cosa hai bisogno di assistenza."],
                [k |-> "pt", v |-> "Estou aqui para ajudar! Por favor, me diga com o que você precisa de ajuda."] >>],
       [k |-> "product_info",
        v |-> << [k |-> "en", v |-> "I'd be happy to tell you about our products. What specific information are you looking for?"],
                [k |-> "es", v |-> "Me complace informarte sobre nuestros productos. ¿Qué información específica buscas?"],
                [k |-> "fr", v |-> "Je serai ravi de vous parler de nos produits. Quelle information spécifique recherchez-vous?"],
                [k |-> "de", v |-> "Ich informiere Sie gerne über unsere Produkte. Welche spezifischen Informationen suchen Sie?"],
                [k |-> "it", v |-> "Sarò felice di parlarti dei nostri prodotti. Quali informazioni specifiche stai cercando?"],
                [k |-> "pt", v |-> "Ficarei feliz em falar sobre nossos produtos. Que informação específica você está procurando?"] >>],
       [k |-> "pricing",
        v |-> << [k |-> "en", v |-> "Our pricing plans start at $9.99/month for the basic package. We also offer premium plans at $19.99/month and enterprise solutions starting at $49.99/month. Would you like more details about any specific plan?"],
                [k |-> "es", v |-> "Nuestros planes de precios comienzan en $9.99/mes para el paquete básico. También ofrecemos planes premium a $19.99/mes y soluciones empresariales a partir de $49.99/mes. ¿Te gustaría más detalles sobre algún plan específico?"],
                [k |-> "fr", v |-> "Nos forfaits commencent à 9,99$/mois pour le forfait de base. Nous proposons également des forfaits premium à 19,99$/mois et des solutions d'entreprise à partir de 49,99$/mois. Souhaitez-vous plus de détails sur un forfait spécifique?"],
                [k |-> "de", v |-> "Unsere Preispläne beginnen bei 9,99$/Monat für das Basispaket. Wir bieten auch Premium-Pläne für 19,99$/Monat und Unternehmenslösungen ab 49,99$/Monat an. Möchten Sie weitere Details zu einem bestimmten Plan?"],
                [k |-> "it", v |-> "I nostri piani tariffari partono da $9,99/mese per il pacchetto base. Offriamo anche piani premium a $19,99/mese e soluzioni aziendali a partire da $49,99/mese. Desideri maggiori dettagli su un piano specifico?"],
                [k |-> "pt", v |-> "Nossos planos de preços começam em $9,99/mês para o pacote básico. Também oferecemos planos premium a $19,99/mês e soluções empresariais a partir de $49,99/mês. Gostaria de mais detalhes sobre algum plano específico?"] >>],
       [k |-> "contact",
        v |-> << [k |-> "en", v |-> "You can reach our customer support team at support@example.com or call us at 1-800-123-4567. Our support hours are Monday to Friday, 9 AM to 6 PM EST."],
                [k |-> "es", v |-> "Puedes contactar a nuestro equipo de atención al cliente en support@example.com o llamarnos al 1-800-123-4567. Nuestro horario de atención es de lunes a viernes, de 9 AM a 6 PM EST."],
                [k |-> "fr", v |-> "Vous pouvez joindre notre équipe d'assistance à support@example.com ou nous appeler au 1-800-123-4567. Nos heures d'assistance sont du lundi au vendredi, de 9h à 18h EST."],
                [k |-> "de", v |-> "Sie können unser Kundendienstteam unter support@example.com erreichen oder uns unter 1-800-123-4567 anrufen. Unsere Supportzeiten sind Montag bis Freitag, 9 bis 18 Uhr EST."],
                [k |-> "it", v |-> "Puoi contattare il nostro team di supporto clienti all'indirizzo support@example.com o chiamarci al numero 1-800-123-4567. I nostri orari di supporto sono dal lunedì al venerdì, dalle 9 alle 18 EST."],
                [k |-> "pt", v |-> "Você pode entrar em contato com nossa equipe de suporte ao cliente em support@example.com ou nos ligar em 1-800-123-4567. Nosso horário de suporte é de segunda a sexta-feira, das 9h às 18h EST."] >>],
       [k |-> "technical_support",
        v |-> << [k |-> "en", v |-> "For technical issues, please try restarting the application first. If the problem persists, check our knowledge base at help.example.com or contact our technical support team at techsupport@example.com with details about your issue."],
                [k |-> "es", v |-> "Para problemas técnicos, intenta reiniciar la aplicación primero. Si el problema persiste, consulta nuestra base de conocimientos en help.example.com o contacta a nuestro equipo de soporte técnico en techsupport@example.com con detalles sobre tu problema."],
                [k |-> "fr", v |-> "Pour les problèmes techniques, veuillez d'abord essayer de redémarrer l'application. Si le problème persiste, consultez notre base de connaissances sur help.example.com ou contactez notre équipe de support technique à techsupport@example.com avec les détails de votre problème."],
                [k |-> "de", v |-> "Bei technischen Problemen versuchen Sie bitte zunächst, die Anwendung neu zu starten. Wenn das Problem weiterhin besteht, schauen Sie in unsere Wissensdatenbank unter help.example.com oder kontaktieren Sie unser technisches Support-Team unter techsupport@example.com mit Details zu Ihrem Problem."],
                [k |-> "it", v |-> "Per problemi tecnici, prova prima a riavviare l'applicazione. Se il problema persiste, consulta la nostra knowledge base su help.example.com o contatta il nostro team di supporto tecnico all'indirizzo techsupport@example.com con i dettagli del tuo problema."],
                [k |-> "pt", v |-> "Para problemas técnicos, tente reiniciar o aplicativo primeiro. Se o problema persistir, verifique nossa base de conhecimento em help.example.com ou entre em contato com nossa equipe de suporte técnico em techsupport@example.com com detalhes sobre seu problema."] >>],
       [k |-> "unknown",
        v |-> << [k |-> "en", v |-> "I'm not sure I understand. Could you please rephrase that?"],
                [k |-> "es", v |-> "No estoy seguro de entender. ¿Podrías reformular eso?"],
                [k |-> "fr", v |-> "Je ne suis pas sûr de comprendre. Pourriez-vous reformuler?"],
                [k |-> "de", v |-> "Ich bin mir nicht sicher, ob ich das verstehe. Könnten Sie das bitte umformulieren?"],
                [k |-> "it", v |-> "Non sono sicuro di capire. Potresti riformulare?"],
                [k |-> "pt", v |-> "Não tenho certeza se entendi. Você poderia reformular isso?"] >>] >>

\* app.py l.238-321: the *_variations lists, by the intent whose branch declares them.
variations ==
    << [k |-> "greeting",
        v |-> << "Hello! How can I assist you today?", "Hi there! What can I help you with?", "Welcome! How may I be of service?", "Greetings! What brings you here today?", "Hello! I'm your virtual assistant. How can I help?" >>],
       [k |-> "farewell",
        v |-> << "Goodbye! Have a great day!", "Farewell! Feel free to come back if you have more questions.", "Take care! It was nice chatting with you.", "Goodbye! I hope I was able to help you today.", "See you next time! Have a wonderful day ahead." >>],
       [k |-> "help",
        v |-> << "I'm here to help! Please let me know what you need assistance with.", "I'd be happy to help you. What specific issue are you facing?", "How can I assist you today? Please provide more details about your question.", "I'm ready to help! Could you tell me more about what you need?", "I'm here to provide support. What can I help you with specifically?" >>],
       [k |-> "product_info",
        v |-> << "I'd be happy to tell you about our products. What specific information are you looking for?", "Our products offer a range of features. What would you like to know more about?", "We have several products that might interest you. Any specific aspect you'd like to explore?", "I can provide information about our products and services. What details are you interested in?", "Our product lineup is designed to meet various needs. What particular information would help you?" >>],
       [k |-> "pricing",
        v |-> << "Our pricing plans start at $9.99/month for the basic package. We also offer premium plans at $19.99/month and enterprise solutions starting at $49.99/month. Would you like more details about any specific plan?", "Our pricing plans are designed to fit your needs. What specific pricing plan are you interested in?", "We offer a range of pricing options. What would you like to know more about our pricing?", "Our pricing is competitive. What specific pricing details are you interested in?", "We have several pricing options. What particular pricing information would help you?" >>],
       [k |-> "contact",
        v |-> << "You can reach our customer support team at support@example.com or call us at 1-800-123-4567. Our support hours are Monday to Friday, 9 AM to 6 PM EST.", "Our customer support team is available to assist you. How can we help you reach us?", "We're here to help you. What's the best way to contact you?", "Our contact information is always available. How would you like to reach us?", "We're always ready to assist you. How can we help you get in touch with us?" >>],
       [k |-> "technical_support",
        v |-> << "For technical issues, please try restarting the application first. If the problem persists, check our knowledge base at help.example.com or contact our technical support team at techsupport@example.com with details about your issue.", "We're here to help you with any technical issues you're facing. What's the best way to assist you?", "Our technical support team is available to assist you. How can we help you with your technical issue?", "We're always ready to assist you. How can we help you with your technical issue?", "We're here to help you. How can we assist you with your technical issue?" >>],
       [k |-> "unknown",
        v |-> << "I'm not sure I understand. Could you please rephrase that?", "I didn't quite catch that. Can you explain in different words?", "I'm having trouble understanding your request. Could you provide more details?", "Could you clarify what you're looking for? I want to make sure I help you correctly.", "I'm not sure what you're asking for. Could you try asking in a different way?" >>] >>

\* The scores dict of detect_language_from_text, in declaration order.
LanguageScores(text_lower) ==
    << [k |-> "es", v |-> CountIn(spanish_words, text_lower) + CountIn(spanish_patterns, text_lower)],
       [k |-> "fr", v |-> CountIn(french_words, text_lower) + CountIn(french_patterns, text_lower)],
       [k |-> "de", v |-> CountIn(german_words, text_lower) + CountIn(german_patterns, text_lower)],
       [k |-> "it", v |-> CountIn(italian_words, text_lower) + CountIn(italian_patterns, text_lower)],
       [k |-> "pt", v |-> CountIn(portuguese_words, text_lower) + CountIn(portuguese_patterns, text_lower)] >>

\* detect_language_from_text(text): the first language with the highest
\* score, "en" when every score is 0.
detect_language_from_text(text) ==
    LET scores == LanguageScores(Lower(text))
        max_score == CHOOSE m \in {scores[i].v : i \in 1..Len(scores)} :
                         \A i \in 1..Len(scores) : scores[i].v <= m
    IN IF max_score > 0
       THEN scores[CHOOSE i \in 1..Len(scores) :
                       /\ scores[i].v = max_score
                       /\ \A j \in 1..(i - 1) : scores[j].v # max_score].k
       ELSE "en"

\* A faulty loop: a later intent with an equal total replaces the match.
RECURSIVE MatchIntent_LastWins(_, _, _, _, _)
MatchIntent_LastWins(text_lower, i, max_matches, matched_intent, intent_confidence) ==
    IF i > Len(intent_patterns) THEN
        [matched_intent |-> matched_intent, intent_confidence |-> intent_confidence]
    ELSE
        LET keywords == intent_patterns[i].v
            total_matches == 2 * CountIn(keywords, text_lower)
                                 + CountPrefixOf(keywords, Split(text_lower))
            confidence == 50 + 5 * total_matches
        IN IF total_matches >= max_matches /\ total_matches > 0
           THEN MatchIntent_LastWins(text_lower, i + 1, total_matches, intent_patterns[i].k,
                                     IF confidence < 95 THEN confidence ELSE 95)
           ELSE MatchIntent_LastWins(text_lower, i + 1, max_matches, matched_intent,
                                     intent_confidence)

\* The loop of process_query over intent_patterns, from position i on. Totals
\* are counted in halves (a full match is 2, a partial match is 1), confidences
\* in hundredths.
RECURSIVE MatchIntent(_, _, _, _, _)
MatchIntent(text_lower, i, max_matches, matched_intent, intent_confidence) ==
    IF i > Len(intent_patterns) THEN
        [matched_intent |-> matched_intent, intent_confidence |-> intent_confidence]
    ELSE
        LET keywords == intent_patterns[i].v
            matches == CountIn(keywords, text_lower)
            partial_matches == CountPrefixOf(keywords, Split(text_lower))
            total_matches == 2 * matches + partial_matches
            confidence == 50 + 5 * total_matches
        IN IF total_matches > max_matches
           THEN MatchIntent(text_lower, i + 1, total_matches, intent_patterns[i].k,
                            IF confidence < 95 THEN confidence ELSE 95)
           ELSE MatchIntent(text_lower, i + 1, max_matches, matched_intent, intent_confidence)

\* The keyword heuristic of process_query: the loop, then the rule for short
\* texts without a match.
KeywordIntent(text) ==
    LET text_lower == Lower(text)
        matched == MatchIntent(text_lower, 1, 0, "unknown", 50)
    IN IF matched.matched_intent = "unknown" /\ Len(Split(text_lower)) <= 3
       THEN [matched_intent |-> "greeting", intent_confidence |-> 60]
       ELSE matched

\* dict.get(key, default)
DictGetOr(d, key, default) == IF HasKey(d, key) THEN DictGet(d, key) ELSE default

\* detected_language of the handler: the caller's language when it is truthy,
\* else detect_language_from_text; language_confidence is 1.0 in both cases.
HttpLanguage(text, preferred_language) ==
    IF Truthy(preferred_language)
    THEN [language |-> preferred_language.s, confidence |-> 100, detector_called |-> FALSE]
    ELSE [language |-> detect_language_from_text(text), confidence |-> 100,
          detector_called |-> TRUE]

\* A faulty handler: random.choice among the intent's variations whatever the
\* language.
ChoicesFor_AnyLanguage(matched_intent, detected_language) ==
    IF HasKey(variations, matched_intent)
    THEN 1..Len(DictGet(variations, matched_intent))
    ELSE {0}

\* The texts random.choice can pick for the intent and language: the intent's
\* variations when the language is "en", else none (response_text is kept).
ChoicesFor(matched_intent, detected_language) ==
    IF detected_language = "en" /\ HasKey(variations, matched_intent)
    THEN 1..Len(DictGet(variations, matched_intent))
    ELSE {0}

\* The body of the handler: the result dict for the text, the preferred
\* language and the index random.choice picks (0: no choice is made).
HttpResult(text, preferred_language, choice) ==
    LET detected == HttpLanguage(text, preferred_language)
        matched == KeywordIntent(text)
        response == DictGetOr(MOCK_RESPONSES, matched.matched_intent,
                              DictGet(MOCK_RESPONSES, "unknown"))
        response_text == DictGetOr(response, detected.language, DictGet(response, "en"))
    IN [IdleCaller EXCEPT
           !.op = "http",
           !.query = text,
           !.preferred_language = preferred_language,
           !.language = detected.language,
           !.language_confidence = detected.confidence,
           !.detector_called = detected.detector_called,
           !.classified_text = Lower(text),
           !.intent = matched.matched_intent,
           !.intent_confidence = matched.intent_confidence,
           !.ret = Return(IF choice = 0 THEN response_text
                          ELSE DictGet(variations, matched.matched_intent)[choice])]

\* The handler's result dicts for the model's inputs, by text, preferred
\* language and choice.
http_results ==
    [text \in HttpTexts, preferred_language \in PreferredLanguages |->
        [choice \in ChoicesFor(KeywordIntent(text).matched_intent,
                               HttpLanguage(text, preferred_language).language) |->
            HttpResult(text, preferred_language, choice)]]

\* POST /process_query of backend/app.py with the body (text,
\* preferred_language): it reads and writes nothing of the service.
HttpProcessQuery(text, preferred_language, choice) ==
    /\ calls < MaxCalls
    /\ choice \in DOMAIN http_results[text, preferred_language]
    /\ last' = http_results[text, preferred_language][choice]
    /\ calls' = calls + 1
    /\ UNCHANGED << responses, translation_models, intents, intent_embeddings,
                    cls_initialized, det_initialized, in_flight, loads, launcher >>

\* The languages translate is called with as both source and target.
SameLanguages == {"en", "ja"}

\* ResponseGenerator.translate(text, lang, lang), called on a free thread:
\* the text is returned as it is, before the cache is looked at.
TranslateSame(text, lang) ==
    /\ ThreadFree
    /\ calls < MaxCalls
    /\ last' = [NewCall("translate") EXCEPT !.query = text,
                                            !.en_text = text,
                                            !.source_lang = lang,
                                            !.target_lang = lang,
                                            !.translation = "same",
                                            !.ret = Return(text)]
    /\ calls' = calls + 1
    /\ UNCHANGED << responses, translation_models, intents, intent_embeddings,
                    cls_initialized, det_initialized, in_flight, loads, launcher >>

\* ------------------------------------- the supported-codes queries

\* languages.update(templates.keys()): the keys not yet met, appended.
RECURSIVE UpdateKeys(_, _, _)
UpdateKeys(languages, templates, i) ==
    IF i > Len(templates) THEN languages
    ELSE UpdateKeys(IF \E j \in 1..Len(languages) : languages[j] = templates[i].k
                    THEN languages
                    ELSE Append(languages, templates[i].k),
                    templates, i + 1)

\* The loop of ResponseGenerator.get_supported_languages over
\* self.responses.values(): the language codes of the table, each once, in
\* the order they are first met.
RECURSIVE TemplateLanguages(_, _, _)
TemplateLanguages(table, i, languages) ==
    IF i > Len(table) THEN languages
    ELSE TemplateLanguages(table, i + 1, UpdateKeys(languages, table[i].v, 1))

ReverseSeq(seq) == [i \in 1..Len(seq) |-> seq[Len(seq) + 1 - i]]

\* list(languages) of a set of str: its elements, each once, in the order
\* the set iterates, which follows the strings' hashes and so the hash seed
\* of the process. Two such orders are taken.
SetOrders(languages) == {languages, ReverseSeq(languages)}

\* A faulty get_supported_languages: it empties the table it lists.
GetSupportedLanguages_Draining(order) ==
    /\ ThreadFree
    /\ calls < MaxCalls
    /\ order \in SetOrders(TemplateLanguages(responses, 1, << >>))
    /\ last' = [NewCall("get_supported_languages") EXCEPT !.listing = order]
    /\ calls' = calls + 1
    /\ responses' = << >>
    /\ UNCHANGED << translation_models, intents, intent_embeddings,
                    cls_initialized, det_initialized, in_flight, loads, launcher >>

\* CustomerSupportService.get_supported_languages(), which returns what
\* ResponseGenerator.get_supported_languages() returns; the detector is not
\* asked.
GetSupportedLanguages(order) ==
    /\ ThreadFree
    /\ calls < MaxCalls
    /\ order \in SetOrders(TemplateLanguages(responses, 1, << >>))
    /\ last' = [NewCall("get_supported_languages") EXCEPT !.listing = order]
    /\ calls' = calls + 1
    /\ UNCHANGED << responses, translation_models, intents, intent_embeddings,
                    cls_initialized, det_initialized, in_flight, loads, launcher >>

\* CustomerSupportService.get_supported_intents(), which returns
\* list(self.intents.keys()) of the classifier.
GetSupportedIntents ==
    /\ ThreadFree
    /\ calls < MaxCalls
    /\ last' = [NewCall("get_supported_intents") EXCEPT !.listing = DictKeys(intents)]
    /\ calls' = calls + 1
    /\ UNCHANGED << responses, translation_models, intents, intent_embeddings,
                    cls_initialized, det_initialized, in_flight, loads, launcher >>

\* ---------------------------------------------------------- run.py

\* max_retries = 10
max_retries == 10

\* port = 8080, the first port run_frontend tries
first_port == 8080

\* max_port = 8090
max_port == 8090

\* What one requests.get on the health endpoint can give within its timeout:
\* status 200, another status, or a RequestException (connection refused,
\* timeout).
ProbeOutcomes == {"200", "503", "RequestException"}

\* What HTTPServer((host, port), ...) can give: a server, OSError with errno
\* 48 (address in use), or another OSError.
BindOutcomes == {"bound", "in_use", "other_error"}

\* main() as it enters its wait loop: retry_count = 0, backend_ready = False.
LauncherStart ==
    [pc |-> "wait", retry_count |-> 0, backend_ready |-> FALSE, port |-> first_port]

\* while retry_count < max_retries and not backend_ready
WaitGoesOn(l) == l.retry_count < max_retries /\ ~l.backend_ready

\* A faulty loop body: a status other than 200 starts the count again.
AfterProbe_CountReset(l, outcome) ==
    LET probed == IF outcome = "200" THEN [l EXCEPT !.backend_ready = TRUE]
                  ELSE IF outcome = "503" THEN [l EXCEPT !.retry_count = 0]
                  ELSE [l EXCEPT !.retry_count = @ + 1]
    IN [probed EXCEPT !.pc = IF WaitGoesOn(probed) THEN "wait" ELSE "run_frontend"]

\* One turn of the wait loop, then its condition: status 200 sets
\* backend_ready; any other status and a RequestException sleep and add one
\* to retry_count. When the loop ends main goes on to run_frontend.
AfterProbe(l, outcome) ==
    LET probed == IF outcome = "200" THEN [l EXCEPT !.backend_ready = TRUE]
                  ELSE [l EXCEPT !.retry_count = @ + 1]
    IN [probed EXCEPT !.pc = IF WaitGoesOn(probed) THEN "wait" ELSE "run_frontend"]

\* The launcher probes the health endpoint.
Probe(outcome) ==
    /\ launcher.pc = "wait"
    /\ launcher' = AfterProbe(launcher, outcome)
    /\ UNCHANGED << responses, translation_models, intents, intent_embeddings,
                    cls_initialized, det_initialized, in_flight, last, loads, calls >>

\* One turn of the port loop of run_frontend: the server is bound and main
\* serves; the port is in use and the next is tried, RuntimeError once
\* max_port is passed; another OSError is raised again.
BindPort(outcome) ==
    /\ launcher.pc = "run_frontend"
    /\ launcher' =
           IF outcome = "bound" THEN [launcher EXCEPT !.pc = "serving"]
           ELSE IF outcome = "in_use" THEN
               [launcher EXCEPT !.port = @ + 1,
                                !.pc = IF launcher.port + 1 <= max_port
                                       THEN "run_frontend" ELSE "raised"]
           ELSE [launcher EXCEPT !.pc = "raised"]
    /\ UNCHANGED << responses, translation_models, intents, intent_embeddings,
                    cls_initialized, det_initialized, in_flight, last, loads, calls >>

\* ---------------------------------------------------- specification

\* The state after CustomerSupportService(): the tables as loaded, the
\* classifier's embeddings as __init__ computes them (while initialized is
\* still False), the flags as the model loads went, an empty cache.
Init ==
    /\ responses \in LoadResponses
    /\ intents \in LoadIntents
    /\ cls_initialized \in BOOLEAN
    /\ intent_embeddings = ComputeIntentEmbeddings(FALSE, cls_initialized, TRUE)
    /\ det_initialized \in BOOLEAN
    /\ translation_models = << >>
    /\ in_flight = EmptyBag
    /\ last = IdleCaller
    /\ loads = << >>
    /\ calls = 0
    /\ launcher = LauncherStart

\* The environment is consulted only where the code calls it: the detection
\* model when detect_language runs, the translation model when generate runs.
Next ==
    \/ \E intent \in IntentNames, language \in LanguageCodes :
           \E tenv \in IF CacheHit(intent, language) THEN TranslateEnvs ELSE {"ok"} :
               GetResponse(intent, language, tenv)
    \/ \E query \in Texts, preferred_language \in PreferredLanguages :
           << query, preferred_language >> \in Queries /\
           \E denv \in IF Truthy(preferred_language) THEN {NoDetectEnv} ELSE DetectEnvs,
              cenv \in ClassifyEnvs :
               \E tenv \in IF CacheHit(ClassifyIntent(query, DefaultThreshold, cenv).intent,
                                       ResolveLanguage(query, preferred_language, denv).language)
                            THEN TranslateEnvs ELSE {"ok"} :
                   ProcessQuery(query, preferred_language, denv, cenv, tenv)
    \/ \E rec \in BagToSet(in_flight), lenv \in LoadEnvs :
           \E tenv \in IF lenv = "ok" THEN TranslateEnvs ELSE {"ok"} :
               LoadModel(rec, lenv, tenv)
    \/ \E text \in Texts, preferred_language \in PreferredLanguages :
           << text, preferred_language >> \in Queries /\
           \E choice \in DOMAIN http_results[text, preferred_language] :
               HttpProcessQuery(text, preferred_language, choice)
    \/ \E order \in SetOrders(TemplateLanguages(responses, 1, << >>)) :
           GetSupportedLanguages(order)
    \/ GetSupportedIntents
    \/ \E lang \in SameLanguages : TranslateSame("Hello", lang)

Spec == Init /\ [][Next]_vars

\* The service called by one caller at a time: a request starts only when
\* none is in progress.
NextSequential ==
    \/ \E intent \in IntentNames, language \in LanguageCodes :
           \E tenv \in IF CacheHit(intent, language) THEN TranslateEnvs ELSE {"ok"} :
               in_flight = EmptyBag /\ GetResponse(intent, language, tenv)
    \/ \E query \in Texts, preferred_language \in PreferredLanguages :
           << query, preferred_language >> \in Queries /\
           \E denv \in IF Truthy(preferred_language) THEN {NoDetectEnv} ELSE DetectEnvs,
              cenv \in ClassifyEnvs :
               \E tenv \in IF CacheHit(ClassifyIntent(query, DefaultThreshold, cenv).intent,
                                       ResolveLanguage(query, preferred_language, denv).language)
                            THEN TranslateEnvs ELSE {"ok"} :
                   in_flight = EmptyBag /\
                   ProcessQuery(query, preferred_language, denv, cenv, tenv)
    \/ \E rec \in BagToSet(in_flight), lenv \in LoadEnvs :
           \E tenv \in IF lenv = "ok" THEN TranslateEnvs ELSE {"ok"} :
               LoadModel(rec, lenv, tenv)

SpecSequential == Init /\ [][NextSequential]_vars

\* main() of run.py from its wait loop on. A probe returns within its
\* timeout and a bind attempt returns, so a step that can be taken is taken.
NextLauncher ==
    \/ \E outcome \in ProbeOutcomes : Probe(outcome)
    \/ \E outcome \in BindOutcomes : BindPort(outcome)

SpecLauncher == Init /\ [][NextLauncher]_vars /\ WF_vars(NextLauncher)

\* ----------------- the classifier, the detector and the handler alone

\* IntentClassifier.classify_intent(text, threshold) called on the classifier.
ClassifyIntentCall(text, threshold, cenv) ==
    /\ calls < MaxCalls
    /\ LET classified == ClassifyIntent(text, threshold, cenv) IN
       last' = [IdleCaller EXCEPT
                   !.op = "classify_intent",
                   !.query = text,
                   !.classified_text = text,
                   !.threshold = threshold,
                   !.sims = cenv.sims,
                   !.raised = cenv.raises,
                   !.intent = classified.intent,
                   !.intent_confidence = classified.confidence]
    /\ calls' = calls + 1
    /\ UNCHANGED << responses, translation_models, intents, intent_embeddings,
                    cls_initialized, det_initialized, in_flight, loads, launcher >>

\* LanguageDetector.detect_language(text) called on the detector.
DetectLanguageCall(text, denv) ==
    /\ calls < MaxCalls
    /\ LET detected == DetectLanguage(text, denv) IN
       last' = [IdleCaller EXCEPT
                   !.op = "detect_language",
                   !.query = text,
                   !.detector_called = TRUE,
                   !.raised = denv.raises,
                   !.language = detected.language,
                   !.language_confidence = detected.confidence]
    /\ calls' = calls + 1
    /\ UNCHANGED << responses, translation_models, intents, intent_embeddings,
                    cls_initialized, det_initialized, in_flight, loads, launcher >>

\* The classifier and the detector as objects a caller holds: the flags as
\* the model loads went, and the embedding index either empty or holding what
\* _compute_intent_embeddings yields on an initialized classifier.
InitComponents ==
    /\ responses = default_responses
    /\ intents \in LoadIntents
    /\ cls_initialized \in BOOLEAN
    /\ intent_embeddings \in {ComputeIntentEmbeddings(FALSE, cls_initialized, TRUE),
                              ComputeIntentEmbeddings(cls_initialized, cls_initialized, TRUE)}
    /\ det_initialized \in BOOLEAN
    /\ translation_models = << >>
    /\ in_flight = EmptyBag
    /\ last = IdleCaller
    /\ loads = << >>
    /\ calls = 0
    /\ launcher = LauncherStart

NextComponents ==
    \/ \E text \in ClassifiedTexts, threshold \in Thresholds, cenv \in ClassifyEnvs :
           ClassifyIntentCall(text, threshold, cenv)
    \/ \E text \in Texts, denv \in DetectEnvsAlone :
           DetectLanguageCall(text, denv)
    \/ \E text \in HttpTexts, preferred_language \in PreferredLanguages :
           \E choice \in DOMAIN http_results[text, preferred_language] :
               HttpProcessQuery(text, preferred_language, choice)

SpecComponents == InitComponents /\ [][NextComponents]_vars

\* ------------------------------------------------------------ claims

\* The requests that ended or are in progress.
Requests == {last} \cup BagToSet(in_flight)

\* The request went through ResponseGenerator.get_response.
UsesGenerator(r) == r.op \in {"get_response", "process_query"}

\* The intent whose templates get_response uses.
Resolved(intent) == IF HasKey(responses, intent) THEN intent ELSE "unknown"

\* The ResponseTable has a direct entry for (intent, language).
DirectEntry(intent, language) ==
    /\ HasKey(responses, intent)
    /\ HasKey(DictGet(responses, intent), language)

\* The intent has no entry for the language but has an "en" entry.
NeedsTranslation(intent, language) ==
    /\ HasKey(responses, Resolved(intent))
    /\ ~HasKey(DictGet(responses, Resolved(intent)), language)
    /\ HasKey(DictGet(responses, Resolved(intent)), "en")

\* The number of requests in progress that are about to load model_key.
Loading(bag, model_key) ==
    BagCardinality([r \in {x \in BagToSet(bag) :
                              ModelKey(x.source_lang, x.target_lang) = model_key}
                       |-> CopiesIn(r, bag)])

\* A load of model_key has failed.
LoadFailed(model_key) ==
    /\ model_key \in DOMAIN loads
    /\ loads[model_key].attempts > loads[model_key].successes

\* C1: callers that resolve the same uncached pair concurrently cause one
\* load of that pair: while no load of a pair has failed, at most one load of
\* it has been executed.
C1_OneLoadPerPair ==
    \A k \in DOMAIN loads :
        loads[k].attempts = loads[k].successes => loads[k].attempts <= 1

\* C2: once a load of a pair has failed, no later request starts another load
\* of that pair.
C2_NoLoadAfterFailure ==
    [][\A k \in DOMAIN loads :
           LoadFailed(k) => Loading(in_flight', k) <= Loading(in_flight, k)]_vars

\* C3: process_query never raises to its caller.
C3_ProcessQueryNeverRaises ==
    last.op = "process_query" => last.ret.kind = "return"

\* C4: get_response returns a non-empty string for every intent and language.
C4_NonEmptyResponse ==
    last.op = "get_response" => last.ret.kind = "return" /\ last.ret.response # ""

\* C5: with a direct entry for (intent, language), get_response returns that
\* literal at once: it never waits for a load, makes no load and no
\* translation call, and stores nothing in the cache.
C5_DirectEntryVerbatim ==
    \A r \in Requests :
        (UsesGenerator(r) /\ DirectEntry(r.intent, r.language)) =>
            /\ r.pc = "idle"
            /\ r.ret = Return(DictGet(DictGet(responses, r.intent), r.language))
            /\ r.loads_made = 0
            /\ r.stores_made = 0
            /\ r.translate_calls = 0

\* C5 witness: a direct entry returned while the cache holds a model.
C5_Witness ==
    /\ last.op = "get_response"
    /\ DirectEntry(last.intent, last.language)
    /\ last.ret.kind = "return"
    /\ DOMAIN translation_models # {}

\* C6: for an intent that is not a key of the ResponseTable, get_response
\* ends as get_response("unknown", language) ends in the same cache state
\* and with the same outcome of the translation attempt.
C6_MissingIntentAsUnknown ==
    (last.op = "get_response" /\ ~HasKey(responses, last.intent)) =>
        last.ret = GetResponseOutcome("unknown", last.language, last.translation)

\* C6 witness: a missing intent answered with the translated "unknown" text.
C6_Witness ==
    /\ last.op = "get_response"
    /\ ~HasKey(responses, last.intent)
    /\ last.translation = "ok"
    /\ last.ret.kind = "return"

\* C7: no entry for the language, an "en" entry, and translation unavailable
\* (the load failed, or the translation call failed): the "en" template.
C7_EnglishFallback ==
    (/\ UsesGenerator(last)
     /\ NeedsTranslation(last.intent, last.language)
     /\ last.translation \in {"load_failed", "call_failed"}) =>
        last.ret = Return(DictGet(DictGet(responses, Resolved(last.intent)), "en"))

\* C7 witness: the translation call failed on a loaded model.
C7_Witness ==
    /\ last.op = "get_response"
    /\ NeedsTranslation(last.intent, last.language)
    /\ last.translation = "call_failed"
    /\ last.ret.kind = "return"

\* C8: two identical get_response calls in a row return the same string, when
\* no translation call fails: in particular when the first load failed and
\* the later one succeeds.
C8_Idempotent ==
    [][(/\ last.op = "get_response" /\ last'.op = "get_response"
        /\ last.intent = last'.intent /\ last.language = last'.language
        /\ last.ret.kind = "return" /\ last'.ret.kind = "return"
        /\ last.translation \notin {"call_failed", "empty"}
        /\ last'.translation \notin {"call_failed", "empty"}) =>
           last'.ret.response = last.ret.response]_vars

\* The request is a query: CustomerSupportService.process_query or the
\* handler of backend/app.py.
IsQuery(r) == r.op \in {"process_query", "http"}

\* C9: whenever the caller supplies a preferred_language to process_query
\* (any value, the empty string included), the language detector is not
\* called, detected_language is the supplied value and language_confidence is
\* 1.0; the detector is called only when no preferred language is supplied.
C9_SuppliedLanguageBypassesDetector ==
    \A r \in Requests : IsQuery(r) =>
        /\ ~r.preferred_language.none =>
               /\ ~r.detector_called
               /\ r.language = r.preferred_language.s
               /\ r.language_confidence = 100
        /\ r.detector_called => r.preferred_language.none

\* C9, as the code has it: whenever the caller supplies a non-empty
\* preferred_language, the detector is not called, detected_language is the
\* supplied value and language_confidence is 1.0; the detector is called only
\* when the preferred language is absent or empty.
C9_NonEmptyLanguageBypassesDetector ==
    \A r \in Requests : IsQuery(r) =>
        /\ Truthy(r.preferred_language) =>
               /\ ~r.detector_called
               /\ r.language = r.preferred_language.s
               /\ r.language_confidence = 100
        /\ r.detector_called =>
               (r.preferred_language.none \/ r.preferred_language.s = "")

\* A process_query with a preferred language ended, on a service whose
\* detection model is loaded.
C9_Witness ==
    /\ last.op = "process_query"
    /\ Truthy(last.preferred_language)
    /\ det_initialized
    /\ last.language = last.preferred_language.s
    /\ last.ret.kind = "return"

\* C10: when the embedding model could not be loaded at startup,
\* classify_intent(text) returns what the keyword heuristic returns for the
\* text: its highest-scoring intent and that intent's confidence.
C10_DegradedClassifierUsesKeywords ==
    (last.op = "process_query" /\ ~cls_initialized) =>
        /\ last.intent = KeywordIntent(last.classified_text).matched_intent
        /\ last.intent_confidence = KeywordIntent(last.classified_text).intent_confidence

\* The call took the similarity path of classify_intent: the classifier is
\* initialized, its index is not empty and the encoder did not raise.
SimilarityPath(r) ==
    /\ r.op = "classify_intent"
    /\ cls_initialized
    /\ Len(intent_embeddings) > 0
    /\ ~r.raised

\* The global maximum of the per-intent maxima.
MaxSimilarity(sims) ==
    CHOOSE s \in {sims[i] : i \in 1..Len(sims)} : \A i \in 1..Len(sims) : sims[i] <= s

\* The positions of the intents that attain the global maximum.
Attaining(sims) == {i \in 1..Len(sims) : sims[i] = MaxSimilarity(sims)}

C12_ThresholdOnMaximum ==
    SimilarityPath(last) =>
        /\ last.intent_confidence = MaxSimilarity(last.sims)
        /\ MaxSimilarity(last.sims) < last.threshold => last.intent = "unknown"
        /\ MaxSimilarity(last.sims) >= last.threshold =>
               \E i \in Attaining(last.sims) : last.intent = intent_embeddings[i].k

\* A maximum of 0.5 under the threshold 0.7: "unknown" with confidence 0.5.
C12_Witness ==
    /\ SimilarityPath(last)
    /\ MaxSimilarity(last.sims) = 50
    /\ last.threshold = 70
    /\ last.intent = "unknown"
    /\ last.intent_confidence = 50

\* C13: when several intents attain the same maximum, the one declared
\* earliest is selected.
C13_EarliestIntentWins ==
    (SimilarityPath(last) /\ MaxSimilarity(last.sims) >= last.threshold) =>
        \E i \in Attaining(last.sims) :
            /\ last.intent = intent_embeddings[i].k
            /\ \A j \in Attaining(last.sims) : i <= j

\* Two intents tie at the maximum and the first declared one is returned.
C13_Witness ==
    /\ SimilarityPath(last)
    /\ MaxSimilarity(last.sims) >= last.threshold
    /\ Cardinality(Attaining(last.sims)) >= 2
    /\ 1 \notin Attaining(last.sims)
    /\ \E i \in Attaining(last.sims) :
           /\ last.intent = intent_embeddings[i].k
           /\ \A j \in Attaining(last.sims) : i <= j

\* The request called LanguageDetector.detect_language.
UsesDetector(r) ==
    r.detector_called /\ r.op \in {"detect_language", "process_query"}

\* C14: a detector whose model did not load answers ("en", 0.5) for every
\* text, and no call changes that: the flag that selects the path stays as
\* construction left it.
C14_DegradedDetectorIsConstant ==
    /\ [](((UsesDetector(last) /\ ~det_initialized) =>
              (last.language = "en" /\ last.language_confidence = 50)))
    /\ [][det_initialized' = det_initialized]_vars

\* A second detect_language call in a row on a detector without model.
C14_Witness ==
    /\ last.op = "detect_language"
    /\ ~det_initialized
    /\ calls >= 2
    /\ last.language = "en"
    /\ last.language_confidence = 50

\* C15: detect_language returns a confidence in [0, 1] and a code that is a
\* label of the model or the default "en", on the model path, the degraded
\* path and the error path.
C15_DetectionInRange ==
    UsesDetector(last) =>
        /\ 0 <= last.language_confidence
        /\ last.language_confidence <= 100
        /\ last.language \in DetectorLabels \cup {"en"}

\* The model raised on a call and the detector answered ("en", 0.5).
C15_Witness ==
    /\ last.op = "detect_language"
    /\ det_initialized
    /\ last.raised
    /\ last.language = "en"
    /\ last.language_confidence = 50

\* The score of every intent of intent_patterns for every text, in halves (a
\* full keyword match counts 2, a prefix match 1).
keyword_scores ==
    [text \in HttpTexts |->
        [i \in 1..Len(intent_patterns) |->
            2 * CountIn(intent_patterns[i].v, Lower(text))
                + CountPrefixOf(intent_patterns[i].v, Split(Lower(text)))]]

\* The number of whitespace-delimited tokens of every text.
token_counts == [text \in HttpTexts |-> Len(Split(Lower(text)))]

\* min(0.5 + 0.1 * score, 0.95), for a score in halves, in hundredths.
HeuristicConfidence(score) == IF 50 + 5 * score < 95 THEN 50 + 5 * score ELSE 95

\* C16: in the keyword heuristic, for a text with at least one keyword
\* match, the selected intent is the first declared one among those with the
\* highest score, and the confidence is min(0.5 + 0.1 * score, 0.95) of that
\* score.
C16_HighestScoreWins ==
    (last.op = "http" /\ MaxSimilarity(keyword_scores[last.query]) > 0) =>
        /\ \E i \in Attaining(keyword_scores[last.query]) :
               /\ last.intent = intent_patterns[i].k
               /\ \A j \in Attaining(keyword_scores[last.query]) : i <= j
        /\ last.intent_confidence =
               HeuristicConfidence(MaxSimilarity(keyword_scores[last.query]))

\* Two intents score the same on the text and the first declared one is
\* selected, with the confidence of 1.5 matches.
C16_Witness ==
    /\ last.op = "http"
    /\ MaxSimilarity(keyword_scores[last.query]) = 3
    /\ Cardinality(Attaining(keyword_scores[last.query])) >= 2
    /\ last.intent = "greeting"
    /\ last.intent_confidence = 65

\* C17: when every intent scores 0, a text of at most 3 tokens is classified
\* ("greeting", 0.6) and a longer one "unknown", by the handler and by
\* CustomerSupportService.process_query alike; process("xyz") yields
\* "greeting" with confidence 0.6.
C17_ShortTextIsGreeting ==
    (IsQuery(last) /\ MaxSimilarity(keyword_scores[last.query]) = 0) =>
        /\ token_counts[last.query] <= 3 =>
               (last.intent = "greeting" /\ last.intent_confidence = 60)
        /\ token_counts[last.query] > 3 => last.intent = "unknown"

\* The declared English greetings: the pool of the handler, the template of
\* the response table.
EnglishGreetings(op) ==
    IF op = "http"
    THEN {DictGet(variations, "greeting")[i] : i \in 1..Len(DictGet(variations, "greeting"))}
    ELSE IF HasKey(responses, "greeting") /\ HasKey(DictGet(responses, "greeting"), "en")
    THEN {DictGet(DictGet(responses, "greeting"), "en")}
    ELSE {}

\* C18: process("Hello", preferred_language = "en") yields intent "greeting",
\* language_confidence 1.0 and a response of the declared English greetings,
\* in the handler and in the orchestrator whose embedding model loaded.
C18_HelloInEnglish ==
    (/\ IsQuery(last)
     /\ last.query = "Hello"
     /\ last.preferred_language = Some("en")
     /\ last.op = "process_query" => cls_initialized) =>
        /\ last.intent = "greeting"
        /\ last.language_confidence = 100
        /\ last.ret.kind = "return"
        /\ last.ret.response \in EnglishGreetings(last.op)

\* C19: process("Hola, necesito ayuda") without preferred language yields
\* detected_language "es" and intent "help".
C19_HolaNecesitoAyuda ==
    (/\ IsQuery(last)
     /\ last.query = "Hola, necesito ayuda"
     /\ ~Truthy(last.preferred_language)) =>
        /\ last.language = "es"
        /\ last.intent = "help"

\* C20: in process_query the classifier receives the query as it came in,
\* the intent and its confidence are what the classifier returned for it, and
\* the response is get_response of that intent and the resolved language.
C20_StagesPassedForward ==
    \A r \in Requests : r.op = "process_query" =>
        /\ r.classified_text = r.query
        /\ \E cenv \in ClassifyEnvs :
               /\ r.intent = ClassifyIntent(r.query, DefaultThreshold, cenv).intent
               /\ r.intent_confidence = ClassifyIntent(r.query, DefaultThreshold, cenv).confidence
        /\ r.pc = "idle" =>
               r.ret = GetResponseOutcome(r.intent, r.language, r.translation)

\* A process_query in a detected language ended with a translated response.
C20_Witness ==
    /\ last.op = "process_query"
    /\ last.query = "Hola, necesito ayuda"
    /\ last.classified_text = "Hola, necesito ayuda"
    /\ last.language = "ja"
    /\ last.translation = "ok"
    /\ last.ret.kind = "return"

\* The elements of a list.
Elements(seq) == {seq[i] : i \in 1..Len(seq)}

\* No element occurs twice in the list.
NoDuplicates(seq) == \A i, j \in 1..Len(seq) : seq[i] = seq[j] => i = j

\* The language keys of all the templates of the table.
TableLanguages ==
    UNION {{responses[i].v[j].k : j \in 1..Len(responses[i].v)} : i \in 1..Len(responses)}

\* LanguageDetector.get_supported_languages on a loaded model: the labels of
\* model.config.id2label.
NativeLabels == IF det_initialized THEN DetectorLabels ELSE {}

\* C21: get_supported_languages returns, without duplicates, the union of the
\* language keys of the response table and, when the detection model is
\* loaded, of the detector's own labels.
C21_LanguagesOfTableAndDetector ==
    last.op = "get_supported_languages" =>
        /\ NoDuplicates(last.listing)
        /\ Elements(last.listing) = TableLanguages \cup NativeLabels

\* The template of the handler's table for the intent and the language: the
\* intent's entry for the language, else its "en" entry.
MockTemplate(intent, language) ==
    LET response == DictGetOr(MOCK_RESPONSES, intent, DictGet(MOCK_RESPONSES, "unknown"))
    IN DictGetOr(response, language, DictGet(response, "en"))

\* C22: the variety step of the handler changes neither the intent nor the
\* language of the result; for language "en" the response is one of the
\* intent's variations, for any other language it is the intent's template
\* for that language, or its "en" template when it has none.
C22_VarietyOnlyInEnglish ==
    last.op = "http" =>
        /\ \A choice \in DOMAIN http_results[last.query, last.preferred_language] :
               LET result == http_results[last.query, last.preferred_language][choice]
               IN result.intent = last.intent /\ result.language = last.language
        /\ last.ret.kind = "return"
        /\ IF last.language = "en"
           THEN last.ret.response \in Elements(DictGet(variations, last.intent))
           ELSE last.ret.response = MockTemplate(last.intent, last.language)

\* An English greeting answered with a variation other than its template.
C22_Witness ==
    /\ last.op = "http"
    /\ last.language = "en"
    /\ last.intent = "greeting"
    /\ last.ret.response # MockTemplate(last.intent, "en")
    /\ last.ret.response \in Elements(DictGet(variations, last.intent))

\* C23: on a classifier constructed with its model loaded, intent_embeddings
\* holds an entry for every declared intent, with one embedding per exemplar.
C23_IndexPopulatedAfterConstruction ==
    cls_initialized =>
        /\ Len(intent_embeddings) = Len(intents)
        /\ \A i \in 1..Len(intents) :
               /\ intent_embeddings[i].k = intents[i].k
               /\ Len(intent_embeddings[i].v) = Len(intents[i].v)

\* C24: no step of process_query, get_supported_languages or
\* get_supported_intents, in any interleaving, changes intents,
\* intent_embeddings or responses; what a listing returns is the table's own
\* keys, and the translation cache is the service state that does change.
C24_TablesAreReadOnly ==
    /\ [][/\ intents' = intents
          /\ intent_embeddings' = intent_embeddings
          /\ responses' = responses
          /\ cls_initialized' = cls_initialized
          /\ det_initialized' = det_initialized]_vars
    /\ [](last.op = "get_supported_intents" => last.listing = DictKeys(intents))
    /\ [](last.op = "get_supported_languages" =>
              Elements(last.listing) = TableLanguages)

\* The languages were listed after a process_query had put a model in the
\* cache, on a table that has languages to list.
C24_Witness ==
    /\ last.op = "get_supported_languages"
    /\ last.cache_at_call # {}
    /\ Len(last.listing) > 1
    /\ \E k \in DOMAIN loads : loads[k].successes > 0
    /\ calls = MaxCalls

\* C25: an entry of the cache is never removed, and when the service is
\* called by one caller at a time no load is made for a pair the cache
\* holds: the cached pairs only grow and each pair is loaded once at most.
C25_CachedPairIsKeptAndNotReloaded ==
    /\ [][\A k \in DOMAIN translation_models :
              /\ k \in DOMAIN translation_models'
              /\ translation_models'[k] = translation_models[k]
              /\ loads'[k] = loads[k]]_vars
    /\ [](\A k \in DOMAIN loads : loads[k].successes <= 1)
    /\ [](\A k \in DOMAIN translation_models :
              k \in DOMAIN loads /\ loads[k].successes = 1)

\* A request for a pair the cache already held was answered by the cached
\* model, without a load.
C25_Witness ==
    /\ UsesGenerator(last)
    /\ ModelKey("en", last.language) \in last.cache_at_call
    /\ last.translation = "ok"
    /\ last.loads_made = 0
    /\ loads[ModelKey("en", last.language)].attempts = 1

\* C26: the ResponseTable a constructed ResponseGenerator holds, whichever
\* way responses.json was loaded, has the intent "unknown" with an "en"
\* entry.
C26_UnknownEnglishAlwaysPresent ==
    /\ HasKey(responses, "unknown")
    /\ HasKey(DictGet(responses, "unknown"), "en")

\* The selected intent has no entry for the language and no "en" entry.
NoEntryAndNoEnglish(intent, language) ==
    /\ HasKey(responses, Resolved(intent))
    /\ ~HasKey(DictGet(responses, Resolved(intent)), language)
    /\ ~HasKey(DictGet(responses, Resolved(intent)), "en")

\* C27: when the selected intent has no entry for the language and no "en"
\* entry, get_response returns the template of the intent's first language
\* key, makes no load and leaves the cache as it was.
C27_FirstDeclaredLanguage ==
    \A r \in Requests :
        (UsesGenerator(r) /\ NoEntryAndNoEnglish(r.intent, r.language)) =>
            /\ r.pc = "idle"
            /\ r.ret.kind = "return"
            /\ r.ret.response = DictGet(responses, Resolved(r.intent))[1].v
            /\ r.loads_made = 0
            /\ r.stores_made = 0
            /\ r.translate_calls = 0

\* C28: a classifier or a detector whose model did not load stays degraded:
\* no classify_intent and no detect_language call changes an initialized
\* flag or the embedding index, and each such call returns the degraded
\* result, ("unknown", 0.0) or ("en", 0.5), without asking a model and
\* without an exception.
C28_DegradedStaysDegraded ==
    /\ [][/\ cls_initialized' = cls_initialized
          /\ det_initialized' = det_initialized
          /\ intent_embeddings' = intent_embeddings]_vars
    /\ []((last.op = "classify_intent" /\ ~cls_initialized) =>
              /\ last.intent = "unknown"
              /\ last.intent_confidence = 0
              /\ last.sims = << >>
              /\ ~last.raised)
    /\ []((last.op = "detect_language" /\ ~det_initialized) =>
              /\ last.language = "en"
              /\ last.language_confidence = 50
              /\ ~last.raised)

\* The degraded classifier has answered its second call.
C28_Witness ==
    /\ ~cls_initialized
    /\ ~det_initialized
    /\ last.op = "classify_intent"
    /\ last.intent = "unknown"
    /\ calls = MaxCalls

\* The language pairs the model's requests can ask a translation model for.
LanguagePairs == ({"en"} \cup SameLanguages) \X ({"en"} \cup LanguageCodes \cup DetectorLabels)

\* C29: every entry of the cache is a loaded tokenizer and a loaded model,
\* stored under "source-target" with source different from target; a failed
\* load and a request with source equal to target add no entry and alter
\* none.
C29_CacheHoldsLoadedPairs ==
    /\ [](\A k \in DOMAIN translation_models :
              /\ translation_models[k][1] # ""
              /\ translation_models[k][2] # ""
              /\ \E p \in LanguagePairs :
                     /\ p[1] # p[2]
                     /\ k = ModelKey(p[1], p[2])
                     /\ translation_models[k][1] = "MarianTokenizer:" \o ModelName(p[1], p[2]))
    /\ [][/\ \A k \in DOMAIN translation_models :
                 k \in DOMAIN translation_models' /\ translation_models'[k] = translation_models[k]
          /\ (\A k \in DOMAIN loads' : loads'[k].successes =
                 (IF k \in DOMAIN loads THEN loads[k].successes ELSE 0))
                 => translation_models' = translation_models
          /\ (last' # last /\ last'.source_lang = last'.target_lang)
                 => translation_models' = translation_models]_vars

\* One pair was loaded and stored, and the load of another pair has failed
\* and left the cache with that one entry.
C29_Witness ==
    /\ UsesGenerator(last)
    /\ last.translation = "load_failed"
    /\ DOMAIN translation_models = {ModelKey("en", "es")}
    /\ LoadFailed(ModelKey("en", "ja"))

\* C30: the launcher's wait for the backend always ends: it probes the
\* health endpoint until the first status 200 or until max_retries probes
\* have failed (another status, or a connection error), and in both cases
\* goes on to start the frontend; the wait never lasts forever and never
\* ends the launch.
C30_WaitForBackendEnds ==
    /\ <>(launcher.pc = "run_frontend")
    /\ [](launcher.pc = "wait" =>
              ~launcher.backend_ready /\ launcher.retry_count < max_retries)
    /\ [](launcher.pc # "wait" =>
              IF launcher.backend_ready
              THEN launcher.retry_count < max_retries
              ELSE launcher.retry_count = max_retries)
    /\ [][launcher.pc = "wait" => launcher'.pc \in {"wait", "run_frontend"}]_vars

\* The backend never answered 200: after max_retries failed probes the
\* launcher is about to start the frontend.
C30_Witness ==
    /\ launcher.pc = "run_frontend"
    /\ launcher.port = first_port
    /\ ~launcher.backend_ready
    /\ launcher.retry_count = max_retries
====
